---- MODULE Spec2Model ----
(***************************************************************************)
(* Model of src/database/init_db.py: the SQLite bootstrap script.          *)
(*                                                                         *)
(* The durable database file is `db`; the open connection sees `view`,     *)
(* which differs from `db` only while a transaction is open.  main() is    *)
(* modelled statement by statement (`pc`), because the claims are about    *)
(* what is persisted when one statement of the sequence is rejected.       *)
(* The engine may reject any call (disk full, corruption, permissions):    *)
(* this is the nondeterministic `fault` input of each step.                *)
(***************************************************************************)
EXTENDS Integers, FiniteSets, Sequences, TLC

\* ---------------------------------------------------------------- bounds
MaxRuns == 3
MaxFaults == 2

\* ------------------------------------------------------------- the schema
Tables == {"app_info", "users", "tasks"}
Indexes == {"idx_tasks_completed", "idx_tasks_updated_at"}
Objects == Tables \cup Indexes

Absent == [kind |-> "absent"]

AppInfoDDL ==
    [kind |-> "table", cols |-> {"id", "key", "value", "created_at"}, uniq |-> {"key"}]

UsersDDL ==
    [kind |-> "table", cols |-> {"id", "username", "email", "created_at"},
     uniq |-> {"username", "email"}]

tasks_table_ddl ==
    [kind |-> "table",
     cols |-> {"id", "title", "notes", "completed", "created_at", "updated_at"},
     uniq |-> {}]

IdxCompletedDDL == [kind |-> "index", on |-> "tasks", col |-> "completed"]

IdxUpdatedAtDDL == [kind |-> "index", on |-> "tasks", col |-> "updated_at"]

TargetSchema ==
    [o \in Objects |->
        CASE o = "app_info" -> AppInfoDDL
          [] o = "users" -> UsersDDL
          [] o = "tasks" -> tasks_table_ddl
          [] o = "idx_tasks_completed" -> IdxCompletedDDL
          [] o = "idx_tasks_updated_at" -> IdxUpdatedAtDDL]

\* ------------------------------------------------------- bookkeeping rows
FixedKeys == {"project_name", "version", "author", "description"}

Bootstrap ==
    [k \in FixedKeys |->
        CASE k = "project_name" -> "database"
          [] k = "version" -> "0.1.0"
          [] k = "author" -> "John Doe"
          [] k = "description" -> ""]

Max(S) == CHOOSE m \in S : \A x \in S : x <= m

\* ------------------------------------------------- the engine's statements
\* Errors the engine raises because of what the catalog holds,
\* as opposed to an injected fault.
LogicalErrors == {"exists", "name_clash", "no_such_table", "no_such_column"}

ExecCreateTableNoGuard(d, name, ddl) ==
    IF d.schema[name].kind # "absent"
    THEN [err |-> "exists", db |-> d]
    ELSE [err |-> "none",
          db |-> [d EXCEPT !.schema[name] = ddl, !.rows[name] = {}]]

ExecCreateTableDropFirst(d, name, ddl) ==
    IF d.schema[name].kind = "index"
    THEN [err |-> "name_clash", db |-> d]
    ELSE [err |-> "none",
          db |-> [d EXCEPT !.schema[name] = ddl, !.rows[name] = {}]]

ExecCreateTableReconcile(d, name, ddl) ==
    IF d.schema[name].kind = "index"
    THEN [err |-> "name_clash", db |-> d]
    ELSE [err |-> "none", db |-> [d EXCEPT !.schema[name] = ddl]]

\* CREATE TABLE IF NOT EXISTS name (...)
ExecCreateTable(d, name, ddl) ==
    IF d.schema[name].kind = "table"
    THEN [err |-> "none", db |-> d]
    ELSE IF d.schema[name].kind = "index"
    THEN [err |-> "name_clash", db |-> d]
    ELSE [err |-> "none",
          db |-> [d EXCEPT !.schema[name] = ddl, !.rows[name] = {}]]

ExecCreateIndexSkipped(d, name, ddl) ==
    IF d.schema[ddl.on].kind # "table"
    THEN [err |-> "no_such_table", db |-> d]
    ELSE [err |-> "none", db |-> d]

\* CREATE INDEX IF NOT EXISTS name ON table(col)
ExecCreateIndex(d, name, ddl) ==
    IF d.schema[ddl.on].kind # "table"
    THEN [err |-> "no_such_table", db |-> d]
    ELSE IF d.schema[name].kind = "table"
    THEN [err |-> "name_clash", db |-> d]
    ELSE IF d.schema[name].kind = "index"
    THEN [err |-> "none", db |-> d]
    ELSE IF ddl.col \notin d.schema[ddl.on].cols
    THEN [err |-> "no_such_column", db |-> d]
    ELSE [err |-> "none", db |-> [d EXCEPT !.schema[name] = ddl]]

HasCols(def, cs) == def.kind = "table" /\ cs \subseteq def.cols

NewRow(d, key, value) ==
    [id |-> Max({r.id : r \in d.rows["app_info"]} \cup {d.seq}) + 1,
     key |-> key, value |-> value]

ExecInsertOrIgnore(d, key, value) ==
    IF ~HasCols(d.schema["app_info"], {"key", "value"})
    THEN [err |-> "no_such_column", db |-> d]
    ELSE IF \E r \in d.rows["app_info"] : r.key = key
    THEN [err |-> "none", db |-> d]
    ELSE [err |-> "none",
          db |-> [d EXCEPT !.rows["app_info"] = @ \cup {NewRow(d, key, value)},
                           !.seq = NewRow(d, key, value).id]]

ExecDeleteAllInsert(d, key, value) ==
    IF ~HasCols(d.schema["app_info"], {"key", "value"})
    THEN [err |-> "no_such_column", db |-> d]
    ELSE [err |-> "none",
          db |-> [d EXCEPT !.rows["app_info"] = {NewRow(d, key, value)},
                           !.seq = NewRow(d, key, value).id]]

\* INSERT OR REPLACE INTO app_info (key, value) VALUES (?, ?):
\* every row that collides with the new one on a UNIQUE column is deleted,
\* then the new row is inserted under a fresh AUTOINCREMENT id.
ExecInsertOrReplace(d, key, value) ==
    IF ~HasCols(d.schema["app_info"], {"key", "value"})
    THEN [err |-> "no_such_column", db |-> d]
    ELSE LET new == NewRow(d, key, value)
             clash == {r \in d.rows["app_info"] :
                          \E c \in d.schema["app_info"].uniq \cap {"key", "value"} :
                              r[c] = new[c]}
         IN  [err |-> "none",
              db |-> [d EXCEPT !.rows["app_info"] = (@ \ clash) \cup {new},
                               !.seq = new.id]]

ImplicitBeginNever(stmt) == FALSE

\* The connection of sqlite3.connect(DB_NAME) has the default isolation
\* level: a transaction is opened implicitly before a data-modifying
\* statement only; any other statement runs in autocommit mode.
ImplicitBegin(stmt) == stmt \in {"INSERT", "UPDATE", "DELETE", "REPLACE"}


\* ------------------------------------------------------------------ state
VARIABLES
    db,        \* the durable database file: catalog, rows, sqlite_sequence
    view,      \* the database as the connection sees it (db + open transaction)
    inTxn,     \* the connection has an open transaction
    conn,      \* "none" | "open" | "closed"
    dbExists,  \* the file myapp.db exists
    pc,        \* position of main()
    raised,    \* positions of this run at which a call raised
    warnings,  \* positions of this run at which a warning was printed
    files,     \* artifacts on disk
    stats,     \* table_count / record_count read by main()
    runs,      \* number of runs of main() started
    faults,    \* number of calls the environment has rejected
    before,    \* db and files as they were when this run started
    esRuns     \* number of times ensure_schema has returned normally

vars ==
    <<db, view, inTxn, conn, dbExists, pc, raised, warnings, files, stats,
      runs, faults, before, esRuns>>

\* --------------------------------------------------- stores main() may find
EmptyDb ==
    [schema |-> [o \in Objects |-> Absent],
     rows |-> [t \in Tables |-> {}],
     seq |-> 0]

AppInfoNoUnique == [AppInfoDDL EXCEPT !.uniq = {}]

AppInfoValueUnique == [AppInfoDDL EXCEPT !.uniq = {"key", "value"}]

AppInfoNoKey == [kind |-> "table", cols |-> {"id", "name"}, uniq |-> {}]

TasksNoCompleted ==
    [kind |-> "table", cols |-> {"id", "title", "updated_at"}, uniq |-> {}]

TasksLegacy ==
    [kind |-> "table", cols |-> {"id", "title", "completed", "updated_at"}, uniq |-> {}]

IdxOnUsers == [kind |-> "index", on |-> "users", col |-> "username"]

AppInfoRowSets ==
    {{},
     {[id |-> 1, key |-> "version", value |-> "0.0.9"]},
     {[id |-> 1, key |-> "theme", value |-> "dark"],
      [id |-> 2, key |-> "motd", value |-> ""]},
     {[id |-> 1, key |-> "version", value |-> "0.0.9"],
      [id |-> 2, key |-> "theme", value |-> "dark"],
      [id |-> 3, key |-> "motd", value |-> ""]}}

TaskRows == {[id |-> 1, title |-> "buy milk", completed |-> 0]}

UserRows == {[id |-> 1, username |-> "ann", email |-> "ann@example.com"]}

TableNamedAsIndex == [kind |-> "table", cols |-> {"id"}, uniq |-> {}]

\* A catalog SQLite can hold: an index exists only on an existing column
\* of an existing table.
WellFormed(sch) ==
    \A i \in Objects :
        sch[i].kind = "index" =>
            /\ sch[sch[i].on].kind = "table"
            /\ sch[i].col \in sch[sch[i].on].cols

Schemas ==
    {sch \in [Objects -> {Absent, AppInfoDDL, AppInfoNoUnique, AppInfoValueUnique,
                          AppInfoNoKey, UsersDDL, tasks_table_ddl, TasksNoCompleted,
                          TasksLegacy, IdxCompletedDDL, IdxUpdatedAtDDL, IdxOnUsers,
                          TableNamedAsIndex}] :
        /\ sch["app_info"] \in {Absent, AppInfoDDL, AppInfoNoUnique,
                                AppInfoValueUnique, AppInfoNoKey}
        /\ sch["users"] \in {Absent, UsersDDL}
        /\ sch["tasks"] \in {Absent, tasks_table_ddl, TasksNoCompleted, TasksLegacy,
                             IdxOnUsers}
        /\ sch["idx_tasks_completed"] \in {Absent, IdxCompletedDDL, IdxOnUsers}
        /\ sch["idx_tasks_updated_at"] \in {Absent, IdxUpdatedAtDDL, TableNamedAsIndex}
        /\ WellFormed(sch)}

Stores ==
    {[schema |-> sch,
      rows |-> [t \in Tables |->
                  CASE t = "app_info" -> ar
                    [] t = "users" -> IF pop /\ sch[t].kind = "table" THEN UserRows ELSE {}
                    [] t = "tasks" -> IF pop /\ sch[t].kind = "table" THEN TaskRows ELSE {}],
      seq |-> Cardinality(ar)] :
        sch \in Schemas, pop \in BOOLEAN, ar \in AppInfoRowSets}

Init ==
    /\ db \in {d \in Stores :
                  d.rows["app_info"] # {} =>
                      HasCols(d.schema["app_info"], {"key", "value"})}
    /\ view = db
    /\ inTxn = FALSE
    /\ conn = "none"
    /\ dbExists \in IF db = EmptyDb THEN BOOLEAN ELSE {TRUE}
    /\ pc = "start"
    /\ raised = {}
    /\ warnings = {}
    /\ files \in {{}, {"db_visualizer"}}
    /\ stats = [tables |-> 0, records |-> 0]
    /\ runs = 1
    /\ faults = 0
    /\ before = [db |-> db, files |-> files]
    /\ esRuns = 0

\* ------------------------------------------------------------- environment
\* The outcomes the environment may give a call: it may reject it while
\* the fault budget lasts.
Outcomes == IF faults < MaxFaults THEN {"ok", "fault"} ELSE {"ok"}

Charge(outcome) == faults' = IF outcome = "fault" THEN faults + 1 ELSE faults


\* An exception leaves main(): inside the try block the finally clause
\* closes the connection, which rolls back the open transaction; nothing
\* after the raising call runs.
RaiseSwallowed(at, err) ==
    /\ pc' = IF at = "connect" THEN "crashed" ELSE "write_conn_info"
    /\ raised' = raised \cup {[at |-> at, err |-> err]}
    /\ conn' = IF conn = "open" THEN "closed" ELSE conn
    /\ inTxn' = FALSE
    /\ db' = db
    /\ view' = db

Raise(at, err) ==
    /\ pc' = "crashed"
    /\ raised' = raised \cup {[at |-> at, err |-> err]}
    /\ conn' = IF conn = "open" THEN "closed" ELSE conn
    /\ inTxn' = FALSE
    /\ db' = db
    /\ view' = db

\* cursor.execute(stmt) on the open connection: res is what the engine
\* makes of the statement on the connection's view.
Execute(at, next, stmt, res, outcome) ==
    IF outcome = "fault" \/ res.err # "none"
    THEN Raise(at, IF outcome = "fault" THEN "fault" ELSE res.err)
    ELSE /\ pc' = next
         /\ view' = res.db
         /\ inTxn' = (inTxn \/ ImplicitBegin(stmt))
         /\ db' = IF inTxn \/ ImplicitBegin(stmt) THEN db ELSE res.db
         /\ UNCHANGED <<conn, raised>>

\* conn.commit()
Commit(at, next, outcome) ==
    IF outcome = "fault"
    THEN Raise(at, "fault")
    ELSE /\ pc' = next
         /\ db' = view
         /\ view' = view
         /\ inTxn' = FALSE
         /\ UNCHANGED <<conn, raised>>

\* ------------------------------------------------------------------ main()
ProbeExisting ==
    /\ pc = "start"
    /\ dbExists
    /\ \E outcome \in Outcomes :
        /\ Charge(outcome)
        /\ IF outcome = "fault"
           THEN /\ raised' = raised \cup {[at |-> "probe", err |-> "fault"]}
                /\ warnings' = warnings \cup {"probe"}
           ELSE UNCHANGED <<raised, warnings>>
    /\ pc' = "connect"
    /\ UNCHANGED <<db, view, inTxn, conn, dbExists, files, stats, runs, before, esRuns>>

CreatingNew ==
    /\ pc = "start"
    /\ ~dbExists
    /\ pc' = "connect"
    /\ UNCHANGED <<db, view, inTxn, conn, dbExists, raised, warnings, files, stats,
                   runs, faults, before, esRuns>>

Connect ==
    /\ pc = "connect"
    /\ \E outcome \in Outcomes :
        /\ Charge(outcome)
        /\ IF outcome = "fault"
           THEN Raise("connect", "fault") /\ UNCHANGED dbExists
           ELSE /\ conn' = "open"
                /\ dbExists' = TRUE
                /\ view' = db
                /\ pc' = "pragma"
                /\ UNCHANGED <<db, inTxn, raised>>
    /\ UNCHANGED <<warnings, files, stats, runs, before, esRuns>>

Pragma ==
    /\ pc = "pragma"
    /\ \E outcome \in Outcomes :
        /\ Charge(outcome)
        /\ Execute("pragma", "es_app_info", "PRAGMA", [err |-> "none", db |-> view], outcome)
    /\ UNCHANGED <<dbExists, warnings, files, stats, runs, before, esRuns>>

\* ---------------------------------------------------------- ensure_schema
CreateAppInfo ==
    /\ pc = "es_app_info"
    /\ \E outcome \in Outcomes :
        /\ Charge(outcome)
        /\ Execute("es_app_info", "es_users", "CREATE",
                   ExecCreateTable(view, "app_info", AppInfoDDL), outcome)
    /\ UNCHANGED <<dbExists, warnings, files, stats, runs, before, esRuns>>

CreateUsers ==
    /\ pc = "es_users"
    /\ \E outcome \in Outcomes :
        /\ Charge(outcome)
        /\ Execute("es_users", "es_tasks", "CREATE",
                   ExecCreateTable(view, "users", UsersDDL), outcome)
    /\ UNCHANGED <<dbExists, warnings, files, stats, runs, before, esRuns>>

CreateTasks ==
    /\ pc = "es_tasks"
    /\ \E outcome \in Outcomes :
        /\ Charge(outcome)
        /\ Execute("es_tasks", "es_idx_completed", "CREATE",
                   ExecCreateTable(view, "tasks", tasks_table_ddl), outcome)
    /\ UNCHANGED <<dbExists, warnings, files, stats, runs, before, esRuns>>

CreateIdxCompleted ==
    /\ pc = "es_idx_completed"
    /\ \E outcome \in Outcomes :
        /\ Charge(outcome)
        /\ Execute("es_idx_completed", "es_idx_updated_at", "CREATE",
                   ExecCreateIndex(view, "idx_tasks_completed", IdxCompletedDDL), outcome)
    /\ UNCHANGED <<dbExists, warnings, files, stats, runs, before, esRuns>>

CreateIdxUpdatedAt ==
    /\ pc = "es_idx_updated_at"
    /\ \E outcome \in Outcomes :
        /\ Charge(outcome)
        /\ Execute("es_idx_updated_at", "es_commit", "CREATE",
                   ExecCreateIndex(view, "idx_tasks_updated_at", IdxUpdatedAtDDL), outcome)
    /\ UNCHANGED <<dbExists, warnings, files, stats, runs, before, esRuns>>

CommitSchema ==
    /\ pc = "es_commit"
    /\ \E outcome \in Outcomes :
        /\ Charge(outcome)
        /\ Commit("es_commit", "up_project_name", outcome)
        /\ esRuns' = IF outcome = "ok" THEN esRuns + 1 ELSE esRuns
    /\ UNCHANGED <<dbExists, warnings, files, stats, runs, before>>

\* ------------------------------------------------- main(): metadata upsert
Upsert(at, next, key) ==
    /\ pc = at
    /\ \E outcome \in Outcomes :
        /\ Charge(outcome)
        /\ Execute(at, next, "INSERT",
                   ExecInsertOrReplace(view, key, Bootstrap[key]), outcome)
    /\ UNCHANGED <<dbExists, warnings, files, stats, runs, before, esRuns>>

UpsertProjectName == Upsert("up_project_name", "up_version", "project_name")

UpsertVersion == Upsert("up_version", "up_author", "version")

UpsertAuthor == Upsert("up_author", "up_description", "author")

UpsertDescription == Upsert("up_description", "commit_meta", "description")

CommitMeta ==
    /\ pc = "commit_meta"
    /\ \E outcome \in Outcomes :
        /\ Charge(outcome)
        /\ Commit("commit_meta", "stats", outcome)
    /\ UNCHANGED <<dbExists, warnings, files, stats, runs, before, esRuns>>

Stats ==
    /\ pc = "stats"
    /\ \E outcome \in Outcomes :
        /\ Charge(outcome)
        /\ Execute("stats", "close", "SELECT", [err |-> "none", db |-> view], outcome)
        /\ stats' = IF outcome = "fault"
                    THEN stats
                    ELSE [tables |-> Cardinality({t \in Objects :
                                                     view.schema[t].kind = "table"}),
                          records |-> Cardinality(view.rows["app_info"])]
    /\ UNCHANGED <<dbExists, warnings, files, runs, before, esRuns>>

\* finally: conn.close() on the normal path; an open transaction is lost.
Close ==
    /\ pc = "close"
    /\ conn' = "closed"
    /\ inTxn' = FALSE
    /\ view' = db
    /\ pc' = "write_conn_info"
    /\ UNCHANGED <<db, dbExists, raised, warnings, files, stats, runs, faults,
                   before, esRuns>>

\* ------------------------------------------ main(): connectivity artifacts
WriteFile(at, next, name) ==
    /\ pc = at
    /\ \E outcome \in Outcomes :
        /\ Charge(outcome)
        /\ IF outcome = "fault"
           THEN /\ raised' = raised \cup {[at |-> at, err |-> "fault"]}
                /\ warnings' = warnings \cup {at}
                /\ files' = files
           ELSE /\ files' = files \cup {name}
                /\ UNCHANGED <<raised, warnings>>
    /\ pc' = next
    /\ UNCHANGED <<db, view, inTxn, conn, dbExists, stats, runs, before, esRuns>>

WriteConnInfo == WriteFile("write_conn_info", "ensure_dir", "db_connection.txt")

EnsureVisualizerDir ==
    /\ pc = "ensure_dir"
    /\ IF "db_visualizer" \in files
       THEN /\ pc' = "write_env"
            /\ UNCHANGED <<db, view, inTxn, conn, raised, files, faults>>
       ELSE \E outcome \in Outcomes :
            /\ Charge(outcome)
            /\ IF outcome = "fault"
               THEN Raise("ensure_dir", "fault") /\ files' = files
               ELSE /\ files' = files \cup {"db_visualizer"}
                    /\ pc' = "write_env"
                    /\ UNCHANGED <<db, view, inTxn, conn, raised>>
    /\ UNCHANGED <<dbExists, warnings, stats, runs, before, esRuns>>

WriteEnv == WriteFile("write_env", "report", "db_visualizer/sqlite.env")

Report ==
    /\ pc = "report"
    /\ pc' = "done"
    /\ UNCHANGED <<db, view, inTxn, conn, dbExists, raised, warnings, files, stats,
                   runs, faults, before, esRuns>>

\* The script is executed again on the store the last run left.
Rerun ==
    /\ pc \in {"done", "crashed"}
    /\ runs < MaxRuns
    /\ runs' = runs + 1
    /\ pc' = "start"
    /\ conn' = "none"
    /\ raised' = {}
    /\ warnings' = {}
    /\ stats' = [tables |-> 0, records |-> 0]
    /\ before' = [db |-> db, files |-> files]
    /\ UNCHANGED <<db, view, inTxn, dbExists, files, faults, esRuns>>

Next ==
    \/ ProbeExisting
    \/ CreatingNew
    \/ Connect
    \/ Pragma
    \/ CreateAppInfo
    \/ CreateUsers
    \/ CreateTasks
    \/ CreateIdxCompleted
    \/ CreateIdxUpdatedAt
    \/ CommitSchema
    \/ UpsertProjectName
    \/ UpsertVersion
    \/ UpsertAuthor
    \/ UpsertDescription
    \/ CommitMeta
    \/ Stats
    \/ Close
    \/ WriteConnInfo
    \/ EnsureVisualizerDir
    \/ WriteEnv
    \/ Report
    \/ Rerun

Spec == Init /\ [][Next]_vars


\* ------------------------------------------------------------ vocabulary
CreatePCs ==
    {"es_app_info", "es_users", "es_tasks", "es_idx_completed", "es_idx_updated_at"}

EnsureSchemaPCs == CreatePCs \cup {"es_commit"}

UpsertPCs == {"up_project_name", "up_version", "up_author", "up_description"}

AuxPCs == {"write_conn_info", "ensure_dir", "write_env"}

AfterEnsurePCs ==
    UpsertPCs \cup {"commit_meta", "stats", "close", "report", "done"} \cup AuxPCs

RaisedAt == {r.at : r \in raised}

\* ensure_schema has returned normally in this run
EnsureReturned ==
    \/ pc \in AfterEnsurePCs
    \/ pc = "crashed" /\ RaisedAt \cap AfterEnsurePCs # {}

AllPresent(sch) ==
    \A o \in Objects : sch[o].kind = IF o \in Tables THEN "table" ELSE "index"

\* the store holds nothing but (some of) the five objects as ensure_schema defines them
TargetSubset(sch) == \A o \in Objects : sch[o] \in {Absent, TargetSchema[o]}

RowsOfKey(d, k) == {r \in d.rows["app_info"] : r.key = k}


\* ------------------------------------------------------------------ claims

\* C1: ensure_schema is idempotent.  Once it has returned normally, every
\* later run leaves the catalog exactly as it is, and no later run (nor any
\* run on a store holding only target objects) raises an error caused by
\* what the catalog holds; only a rejection by the environment can stop it.
C1_Idempotence ==
    /\ [](\A r \in raised :
            (r.at \in EnsureSchemaPCs /\ (esRuns >= 1 \/ TargetSubset(before.db.schema)))
                => r.err \notin LogicalErrors)
    /\ [][esRuns >= 1 => db'.schema = db.schema]_vars

C1_Witness ==
    /\ esRuns >= 2
    /\ pc = "up_project_name"
    /\ raised = {}
    /\ AllPresent(db.schema)

\* C2: no step of ensure_schema, whether it succeeds or raises, changes a
\* row of any table, in the file or in the connection's view.
C2_RowsUntouched ==
    [][(pc \in EnsureSchemaPCs) => (db'.rows = db.rows /\ view'.rows = view.rows)]_vars

C2_Witness ==
    /\ pc = "up_project_name"
    /\ db.schema # before.db.schema
    /\ db.rows["tasks"] = TaskRows
    /\ db.rows["users"] = UserRows
    /\ db.rows["app_info"] # {}

\* C3 (as claimed): when a statement of ensure_schema is rejected, the
\* store holds exactly the schema objects it held before the run.
C3_Atomic ==
    (pc = "crashed" /\ RaisedAt \cap CreatePCs # {}) => db.schema = before.db.schema

\* C4: whenever ensure_schema has returned normally, the three tables and
\* the two indexes are present in the committed catalog.
C4_AllPresentOnReturn == EnsureReturned => AllPresent(db.schema)

C4_Witness ==
    /\ pc = "up_project_name"
    /\ before.db = EmptyDb
    /\ AllPresent(db.schema)

\* C5 (as claimed): after a successful run of main each fixed key has
\* exactly one app_info row, holding the bootstrap value.
C5_OneRowPerKey ==
    pc = "done" =>
        \A k \in FixedKeys :
            /\ Cardinality(RowsOfKey(db, k)) = 1
            /\ \A r \in RowsOfKey(db, k) : r.value = Bootstrap[k]

\* C5 (amended): the same, provided the app_info table in the store has
\* the definition ensure_schema gives it (key its only UNIQUE column).
C5_OneRowPerKeyIfUnique ==
    (pc = "done" /\ db.schema["app_info"] = AppInfoDDL) =>
        \A k \in FixedKeys :
            /\ Cardinality(RowsOfKey(db, k)) = 1
            /\ \A r \in RowsOfKey(db, k) : r.value = Bootstrap[k]

C5_Witness ==
    /\ pc = "done"
    /\ runs >= 2
    /\ db.schema["app_info"] = AppInfoDDL
    /\ \E r \in before.db.rows["app_info"] : r.key = "version"
    /\ \A k \in FixedKeys : Cardinality(RowsOfKey(db, k)) = 1

\* C6 (as claimed): no step of main removes or changes an app_info row
\* whose key is not one of the four fixed keys.
C6_OtherKeysKept ==
    [][\A r \in db.rows["app_info"] :
          r.key \notin FixedKeys => r \in db'.rows["app_info"]]_vars

\* C6 (amended): the same, provided the app_info table in the store has
\* the definition ensure_schema gives it (key its only UNIQUE column).
C6_OtherKeysKeptIfValueFree ==
    [][\A r \in db.rows["app_info"] :
          (r.key \notin FixedKeys /\ db.schema["app_info"] = AppInfoDDL)
              => r \in db'.rows["app_info"]]_vars

C6_Witness ==
    /\ pc = "done"
    /\ runs >= 2
    /\ db.schema["app_info"] = AppInfoDDL
    /\ [id |-> 2, key |-> "motd", value |-> ""] \in db.rows["app_info"]
    /\ \E r \in db.rows["app_info"] : r.key = "description"

\* C7 (as claimed): a failure while writing the connectivity artifacts,
\* preparing the db_visualizer directory included, never ends main as a
\* crash, and leaves the store as it was.
C7_AuxNonFatal ==
    RaisedAt \cap AuxPCs # {} => pc # "crashed"

\* C8 (as claimed): once opening the store has failed or a create/insert
\* statement has been rejected, the run is a crash.
C8_StorageFatal ==
    RaisedAt \cap ({"probe", "connect"} \cup CreatePCs \cup UpsertPCs) # {}
        => pc = "crashed"

\* C8 (amended): once opening the store at the bootstrap connect has failed
\* or a create/insert statement has been rejected, the run is a crash:
\* nothing was raised after it, no metadata row was persisted, no
\* connectivity file was written and no later step runs.  (A failure of
\* the accessibility probe of an existing file is only a warning.)
C8_StorageFatalAfterProbe ==
    /\ [](\A r \in raised :
            r.at \in {"connect"} \cup CreatePCs \cup UpsertPCs =>
                /\ pc = "crashed"
                /\ RaisedAt \subseteq {r.at, "probe"}
                /\ db.rows = before.db.rows
                /\ files = before.files
                /\ warnings \subseteq {"probe"})
    /\ [][pc = "crashed" => (pc' = "start" /\ db' = db /\ files' = files)]_vars

C8_Witness ==
    /\ pc = "crashed"
    /\ RaisedAt = {"up_version"}
    /\ db.schema # before.db.schema

\* C9: a statement of ensure_schema never changes, drops or re-creates an
\* object that already exists under its name, whatever its definition.
C9_NoReconciliation ==
    [][\A o \in Objects :
          db.schema[o].kind # "absent" =>
              (db'.schema[o] = db.schema[o] /\ view'.schema[o] = db.schema[o])]_vars

C9_Witness ==
    /\ pc = "up_project_name"
    /\ db.schema["tasks"] = TasksLegacy
    /\ db.schema["app_info"] = AppInfoNoUnique
    /\ db.schema["idx_tasks_completed"] = IdxOnUsers
    /\ db.schema["idx_tasks_updated_at"] = IdxUpdatedAtDDL
    /\ before.db.schema["idx_tasks_updated_at"] = Absent

\* C10: the metadata upserts run only once the schema is committed, they
\* reach the file only at the single later commit, and when one of them is
\* rejected the app_info rows are as before the run while the schema
\* objects stay.
C10_UpsertsCommittedTogether ==
    /\ [](pc \in UpsertPCs \cup {"commit_meta"} => (AllPresent(db.schema) /\ conn = "open"))
    /\ [][db'.rows # db.rows => (pc = "commit_meta" /\ pc' = "stats")]_vars
    /\ []((pc = "crashed" /\ RaisedAt \cap UpsertPCs # {}) =>
            /\ db.rows = before.db.rows
            /\ db.seq = before.db.seq
            /\ AllPresent(db.schema))

C10_Witness ==
    /\ pc = "crashed"
    /\ RaisedAt = {"up_description"}
    /\ before.db.rows["app_info"] # {}
    /\ db.schema # before.db.schema
    /\ db.rows = before.db.rows

====
